---- MODULE Spec2Model ----
(***************************************************************************)
(* Model of backend/app.py: the SEGY survey geometry service.              *)
(*                                                                         *)
(* The program is a stateless web service: every route re-reads the SEGY   *)
(* file and recomputes its response.  The state is the file (its trace     *)
(* headers and the scaling word of the first header) and the last response *)
(* a route produced.                                                       *)
(*                                                                         *)
(* Numbers.  Python's floats are modelled by exact rationals <<n, d>>      *)
(* (d > 0, lowest terms); floating-point rounding is not modelled.         *)
(* Square roots are avoided: a distance is compared through its square,    *)
(* and the two edge lengths are kept squared.                              *)
(***************************************************************************)
EXTENDS Integers, Sequences, FiniteSets, TLC

VARIABLES traces,   \* the trace headers of SEGY_FILE, in storage order
          sgs71,    \* header[0][71], the raw scaling word of the first trace
          resp,     \* the response of the last request served
          arg,      \* the argument pair of the last pure call under study
          out       \* its result

vars == <<traces, sgs71, resp, arg, out>>

(***************************************************************************)
(* Bounds of the model.                                                    *)
(***************************************************************************)
MaxRows == 4        \* traces in the file
MaxRaw == 10        \* |value| handed to apply_sgs_scaling in SpecScale
MaxFactor == 3      \* |sgs| handed to apply_sgs_scaling in SpecScale
ThetaRes == 2       \* angles per degree handed to the normalisation in SpecOrient

(***************************************************************************)
(* Rationals.                                                              *)
(***************************************************************************)
Abs(n) == IF n < 0 THEN -n ELSE n

RECURSIVE GCD(_, _)
GCD(a, b) == IF b = 0 THEN a ELSE GCD(b, a % b)

LCM(a, b) == (a * b) \div GCD(a, b)

Rat(n, d) ==
    LET g == GCD(Abs(n), Abs(d))
        s == IF d < 0 THEN -1 ELSE 1
    IN  <<(s * n) \div g, (s * d) \div g>>

RInt(n) == <<n, 1>>
RAdd(a, b) == Rat(a[1] * b[2] + b[1] * a[2], a[2] * b[2])
RSub(a, b) == Rat(a[1] * b[2] - b[1] * a[2], a[2] * b[2])
RMul(a, b) == Rat(a[1] * b[1], a[2] * b[2])
RLess(a, b) == a[1] * b[2] < b[1] * a[2]
RLeq(a, b) == a[1] * b[2] <= b[1] * a[2]
\* Python's true division; a zero divisor raises ZeroDivisionError.
ZeroDivisionError == <<0, 0>>
RDiv(a, b) == IF b[1] = 0 THEN ZeroDivisionError ELSE Rat(a[1] * b[2], a[2] * b[1])
IsRat(r) == /\ r \in Int \X Int
            /\ r[2] > 0
            /\ GCD(Abs(r[1]), r[2]) = 1

RECURSIVE RMinOf(_)
RMinOf(s) ==
    IF Len(s) = 1 THEN s[1]
    ELSE LET m == RMinOf(Tail(s)) IN IF RLess(m, s[1]) THEN m ELSE s[1]

RECURSIVE RMaxOf(_)
RMaxOf(s) ==
    IF Len(s) = 1 THEN s[1]
    ELSE LET m == RMaxOf(Tail(s)) IN IF RLess(s[1], m) THEN m ELSE s[1]

\* Python's sorted() of a collection of distinct integers.
RECURSIVE Sorted(_)
Sorted(S) ==
    IF S = {} THEN <<>>
    ELSE LET m == CHOOSE x \in S : \A y \in S : x <= y
         IN  <<m>> \o Sorted(S \ {m})

\* The rows of df at the positions of S, in row order.
SelectIdx(df, S) ==
    LET o == Sorted(S) IN [k \in 1..Len(o) |-> df[o[k]]]

Range(s) == {s[i] : i \in DOMAIN s}

(***************************************************************************)
(* apply_sgs_scaling(value, sgs).  value and sgs are rationals.            *)
(***************************************************************************)
apply_sgs_scaling_nozero(value, sgs) ==
    IF RLeq(sgs, RInt(0)) THEN RDiv(value, <<Abs(sgs[1]), sgs[2]>>)
    ELSE RMul(value, sgs)

apply_sgs_scaling(value, sgs) ==
    IF sgs[1] = 0 THEN value
    ELSE IF sgs[1] < 0 THEN RDiv(value, <<Abs(sgs[1]), sgs[2]>>)
    ELSE RMul(value, sgs)

\* "sgs = header[0][71]; if sgs == 0: sgs = 1.0", repeated in each reader.
EffectiveSgs(raw) == IF raw = 0 THEN RInt(1) ELSE RInt(raw)

(***************************************************************************)
(* The SEGY file as segyio exposes it.                                     *)
(***************************************************************************)
\* segy_3d.header[i] with Python's indexing (a negative i counts from the end).
Header(hs, i) == IF i < 0 THEN hs[Len(hs) + i + 1] ELSE hs[i + 1]

\* header[0] exists: both readers start by reading it, and raise on a file
\* with no trace.  The operators below are applied to readable files only.
Readable(hs) == Len(hs) > 0

\* segy_3d.xlines and segy_3d.ilines: the distinct line numbers of the file.
Xlines(hs) == {hs[i].XLINE : i \in DOMAIN hs}
Ilines(hs) == {hs[i].INLINE : i \in DOMAIN hs}

(***************************************************************************)
(* read_segy_metadata(): the four corner headers, scaled.                  *)
(***************************************************************************)
CornerHeaders(hs) ==
    << Header(hs, 0),
       Header(hs, -1),
       Header(hs, -(Cardinality(Xlines(hs)))),
       Header(hs, Cardinality(Xlines(hs)) - 1) >>

CornerScale(v, sgs) == apply_sgs_scaling(RInt(v), sgs)

read_segy_metadata(hs, word) ==
    LET sgs == EffectiveSgs(word)
        corners == CornerHeaders(hs)
    IN       [i \in 1..4 |->
                [X |-> CornerScale(corners[i].X_RAW, sgs),
                 Y |-> CornerScale(corners[i].Y_RAW, sgs),
                 X_RAW |-> corners[i].X_RAW,
                 Y_RAW |-> corners[i].Y_RAW,
                 INLINE |-> corners[i].INLINE,
                 XLINE |-> corners[i].XLINE,
                 corner_index |-> i - 1,
                 sgs |-> sgs]]

(***************************************************************************)
(* read_all_segy_metadata(): every trace, scaled, one row per              *)
(* (INLINE, XLINE) pair (pandas drop_duplicates keeps the first).          *)
(***************************************************************************)
TableScale(v, sgs) == apply_sgs_scaling(RInt(v), sgs)

drop_duplicates(rows) ==
    SelectIdx(rows, {i \in DOMAIN rows :
                       \A j \in 1..(i - 1) :
                          \/ rows[j].INLINE # rows[i].INLINE
                          \/ rows[j].XLINE # rows[i].XLINE})

read_all_segy_metadata(hs, word) ==
    LET sgs == EffectiveSgs(word)
    IN       drop_duplicates(
               [i \in 1..Len(hs) |->
                  [INLINE |-> hs[i].INLINE,
                   XLINE |-> hs[i].XLINE,
                   X |-> TableScale(hs[i].X_RAW, sgs),
                   Y |-> TableScale(hs[i].Y_RAW, sgs),
                   X_RAW |-> hs[i].X_RAW,
                   Y_RAW |-> hs[i].Y_RAW]])

\* df[df['INLINE'] == il] and df[df['XLINE'] == xl]
InlineRows(df, il) == SelectIdx(df, {i \in DOMAIN df : df[i].INLINE = il})
XlineRows(df, xl) == SelectIdx(df, {i \in DOMAIN df : df[i].XLINE = xl})

\* il_data[['X', 'Y']].values
PointsOf(rows) == [i \in 1..Len(rows) |-> <<rows[i].X, rows[i].Y>>]

(***************************************************************************)
(* survey_boundary(): polygon, extents and metrics.                        *)
(***************************************************************************)
corner_order_native == <<0, 1, 2, 3>>

corner_order == <<0, 3, 1, 2>>

\* df[df['corner_index'] == corner_idx].iloc[0]
CornerRow(df, idx) ==
    df[CHOOSE i \in DOMAIN df :
          /\ df[i].corner_index = idx
          /\ \A j \in 1..(i - 1) : df[j].corner_index # idx]

\* The rows of the corner table in polygon order (empty selections skipped).
OrderedCorners(df) ==
    LET present == [k \in 1..4 |->
                      \E i \in DOMAIN df : df[i].corner_index = corner_order[k]]
        ks == {k \in 1..4 : present[k]}
    IN  [n \in 1..Cardinality(ks) |-> CornerRow(df, corner_order[Sorted(ks)[n]])]

\* boundary_points, closed by a copy of its first point.
BoundaryPoints(df) ==
    LET rows == OrderedCorners(df)
        pts == [n \in 1..Len(rows) |-> <<rows[n].X, rows[n].Y>>]
    IN  IF pts = <<>> THEN pts ELSE Append(pts, pts[1])

MetricScaleRaw(v, sgs) == RInt(v)

MetricScale(v, sgs) == apply_sgs_scaling(RInt(v), sgs)

\* cdpx_scaled, cdpy_scaled: the corner coordinates the metrics are computed on.
MetricPoints(hs, word) ==
    LET sgs == EffectiveSgs(word)
        cs == CornerHeaders(hs)
    IN  [i \in 1..4 |-> <<MetricScale(cs[i].X_RAW, sgs), MetricScale(cs[i].Y_RAW, sgs)>>]

\* (a.x - b.x) ** 2 + (a.y - b.y) ** 2, the square of len1 and of len2.
DistSq(a, b) ==
    LET dx == RSub(a[1], b[1])
        dy == RSub(a[2], b[2])
    IN  RAdd(RMul(dx, dx), RMul(dy, dy))

\* The vector handed to np.angle: corner 3 minus corner 0.
OrientVector(hs, word) ==
    LET mp == MetricPoints(hs, word)
    IN  <<RSub(mp[4][1], mp[1][1]), RSub(mp[4][2], mp[1][2])>>

(***************************************************************************)
(* np.angle(complex(dx, dy), deg=True).  The arctangent is not computable  *)
(* in integers: the model returns the exact angle at the multiples of 45   *)
(* degrees (the zero vector included, whose angle is 0) and otherwise any  *)
(* of a few angles strictly inside the octant of the vector.               *)
(***************************************************************************)
OctantSamples == {1, 22, 44}

Angle(dx, dy) ==
    LET ax == Abs(dx[1]) * dy[2]
        ay == Abs(dy[1]) * dx[2]
        In(lo) == {RInt(lo + k) : k \in OctantSamples}
    IN  IF dy[1] = 0 THEN (IF dx[1] >= 0 THEN {RInt(0)} ELSE {RInt(180)})
        ELSE IF dx[1] = 0 THEN (IF dy[1] > 0 THEN {RInt(90)} ELSE {RInt(-90)})
        ELSE IF ax = ay THEN
             (IF dy[1] > 0 THEN (IF dx[1] > 0 THEN {RInt(45)} ELSE {RInt(135)})
                           ELSE (IF dx[1] > 0 THEN {RInt(-45)} ELSE {RInt(-135)}))
        ELSE IF dy[1] > 0 THEN
             (IF dx[1] > 0 THEN (IF ay < ax THEN In(0) ELSE In(45))
                           ELSE (IF ay > ax THEN In(90) ELSE In(135)))
        ELSE (IF dx[1] > 0 THEN (IF ay > ax THEN In(-90) ELSE In(-45))
                           ELSE (IF ay < ax THEN In(-180) ELSE In(-135)))

\* The three-way normalisation of the angle.
FinDegNoWrap(deg_1) ==
    IF RLess(deg_1, RInt(0)) THEN RAdd(RInt(270), deg_1)
    ELSE RSub(RInt(90), deg_1)

FinDeg(deg_1) ==
    IF RLess(deg_1, RInt(0)) THEN RAdd(RInt(270), deg_1)
    ELSE IF RLeq(RInt(0), deg_1) /\ RLeq(deg_1, RInt(90)) THEN RSub(RInt(90), deg_1)
    ELSE RSub(RInt(450), deg_1)

\* round(x, 2): to the nearest hundredth, a tie to the even one.
Round2(r) ==
    LET p == r[1] * 100
        f == p \div r[2]
        rem == p - f * r[2]
        k == IF 2 * rem < r[2] THEN f
             ELSE IF 2 * rem > r[2] THEN f + 1
             ELSE IF f % 2 = 0 THEN f ELSE f + 1
    IN  Rat(k, 100)

(***************************************************************************)
(* The body of the /survey-boundary response.  area_sq_km and the bin      *)
(* sizes are functions of len1 and len2 alone; the model keeps the squares *)
(* of the two lengths and the points they were measured on instead.  The   *)
(* range strings are kept as <<min, max>> pairs.                           *)
(***************************************************************************)
survey_boundary(hs, word, deg_1) ==
    LET df == read_segy_metadata(hs, word)
        all_df == read_all_segy_metadata(hs, word)
    IN  LET rows == OrderedCorners(df)
            boundary_points == BoundaryPoints(df)
            all_inlines == Sorted({all_df[i].INLINE : i \in DOMAIN all_df})
            all_xlines == Sorted({all_df[i].XLINE : i \in DOMAIN all_df})
            x_coords == [n \in 1..(Len(boundary_points) - 1) |-> boundary_points[n][1]]
            y_coords == [n \in 1..(Len(boundary_points) - 1) |-> boundary_points[n][2]]
            mp == MetricPoints(hs, word)
            cdpx_scaled == [i \in 1..4 |-> mp[i][1]]
            cdpy_scaled == [i \in 1..4 |-> mp[i][2]]
        IN  [boundary |-> boundary_points,
             iline_cood |-> [n \in 1..Len(rows) |-> rows[n].INLINE],
             xline_cood |-> [n \in 1..Len(rows) |-> rows[n].XLINE],
             all_inlines |-> all_inlines,
             all_xlines |-> all_xlines,
             x_min |-> RMinOf(x_coords), x_max |-> RMaxOf(x_coords),
             y_min |-> RMinOf(y_coords), y_max |-> RMaxOf(y_coords),
             sgs |-> EffectiveSgs(word),
             cdpx_scaled |-> cdpx_scaled,
             cdpy_scaled |-> cdpy_scaled,
             len1_sq |-> DistSq(mp[1], mp[4]),
             len2_sq |-> DistSq(mp[1], mp[3]),
             orientation_degrees |-> Round2(FinDeg(deg_1)),
             ILINE_Range |-> <<all_inlines[1], all_inlines[Len(all_inlines)]>>,
             XLINE_Range |-> <<all_xlines[1], all_xlines[Len(all_xlines)]>>,
             X_COORDINATE_Range |-> <<RMinOf(cdpx_scaled), RMaxOf(cdpx_scaled)>>,
             Y_COORDINATE_Range |-> <<RMinOf(cdpy_scaled), RMaxOf(cdpy_scaled)>>]

(***************************************************************************)
(* grid_data_all(): one line per inline and per crossline with at least    *)
(* two rows.  hover_info repeats each point as display text and is not     *)
(* modelled.                                                               *)
(***************************************************************************)
LineQualifiesAny(rows) == Len(rows) >= 1

LineQualifies(rows) == Len(rows) >= 2

grid_data_all(hs, word) ==
    LET df == read_all_segy_metadata(hs, word)
    IN  LET ils == Sorted({il \in {df[i].INLINE : i \in DOMAIN df} :
                             LineQualifies(InlineRows(df, il))})
            xls == Sorted({xl \in {df[i].XLINE : i \in DOMAIN df} :
                             LineQualifies(XlineRows(df, xl))})
            inline_data == [n \in 1..Len(ils) |->
                              [inline |-> ils[n],
                               points |-> PointsOf(InlineRows(df, ils[n]))]]
            xline_data == [n \in 1..Len(xls) |->
                              [xline |-> xls[n],
                               points |-> PointsOf(XlineRows(df, xls[n]))]]
        IN  [inlines |-> inline_data,
             xlines |-> xline_data,
             total_inlines |-> Len(inline_data),
             total_xlines |-> Len(xline_data)]

(***************************************************************************)
(* boundary_edge_lines(): which lines come within the tolerance of which   *)
(* boundary edge.                                                          *)
(***************************************************************************)
tolerance == 50

\* c * c < k * k * L for c >= 0, k > 0, L > 0, without leaving 32 bits.
SqLess(c, k, L) ==
    LET u == c \div k
        r == c % k
    IN  IF u >= 46341 THEN FALSE
        ELSE IF u * u >= L THEN FALSE
        ELSE IF u < 46340 /\ (u + 1) * (u + 1) <= L THEN TRUE
        ELSE 2 * k * u * r + r * r < k * k * (L - u * u)

(***************************************************************************)
(* point_to_line_distance(point, line_start, line_end) < tol.  The         *)
(* coordinates are brought to their common denominator q; the code's       *)
(* clamped projection gives the squared distance A*A + B*B at the start    *)
(* (param < 0, or a zero-length edge, param = -1), the squared distance to *)
(* the end (param > 1), and otherwise (A*D - B*C)^2 / len_sq.              *)
(***************************************************************************)
PointToLineDistLess(point, line_start, line_end, tol) ==
    LET q == LCM(LCM(LCM(point[1][2], point[2][2]),
                     LCM(line_start[1][2], line_start[2][2])),
                 LCM(line_end[1][2], line_end[2][2]))
        N(r) == r[1] * (q \div r[2])
        x == N(point[1])
        y == N(point[2])
        x1 == N(line_start[1])
        y1 == N(line_start[2])
        x2 == N(line_end[1])
        y2 == N(line_end[2])
        A == x - x1
        B == y - y1
        C == x2 - x1
        D == y2 - y1
        dot == A * C + B * D
        len_sq == C * C + D * D
    IN  IF len_sq = 0 \/ dot < 0
           THEN A * A + B * B < tol * tol * q * q
        ELSE IF dot > len_sq
           THEN (x - x2) * (x - x2) + (y - y2) * (y - y2) < tol * tol * q * q
        ELSE SqLess(Abs(A * D - B * C), tol * q, len_sq)

\* The four edges of the polygon: top, right, bottom, left.
Edges(boundary_points) ==
    << <<boundary_points[1], boundary_points[2]>>,
       <<boundary_points[2], boundary_points[3]>>,
       <<boundary_points[3], boundary_points[4]>>,
       <<boundary_points[4], boundary_points[1]>> >>

NearEdge(points, edge) ==
    \E i \in DOMAIN points :
       PointToLineDistLess(points[i], edge[1], edge[2], tolerance)

\* Only the first edge a line comes near.
FirstEdgeOfLine(points, edges) ==
    {e \in 0..3 : /\ NearEdge(points, edges[e + 1])
                  /\ \A f \in 0..(e - 1) : ~NearEdge(points, edges[f + 1])}

\* The edges a line is added to: the loop over the edges goes on after a hit.
EdgesOfLine(points, edges) ==
    {e \in 0..3 : NearEdge(points, edges[e + 1])}

boundary_edge_lines(hs, word) ==
    LET df == read_all_segy_metadata(hs, word)
        corners == read_segy_metadata(hs, word)
    IN  LET closed == BoundaryPoints(corners)
            boundary_points == SubSeq(closed, 1, Len(closed) - 1)
        IN  IF Len(boundary_points) < 4 THEN <<>>
            ELSE
            LET edges == Edges(boundary_points)
                ils == {df[i].INLINE : i \in DOMAIN df}
                xls == {df[i].XLINE : i \in DOMAIN df}
                il_edges == [il \in ils |->
                               EdgesOfLine(PointsOf(InlineRows(df, il)), edges)]
                xl_edges == [xl \in xls |->
                               EdgesOfLine(PointsOf(XlineRows(df, xl)), edges)]
            IN  [e \in 0..3 |->
                   [inlines |-> Sorted({il \in ils : e \in il_edges[il]}),
                    xlines |-> Sorted({xl \in xls : e \in xl_edges[xl]})]]

(***************************************************************************)
(* The files the service is started on.  A file is a sequence of traces    *)
(* over a small set of line numbers; a trace's raw coordinates follow one  *)
(* of three survey layouts (origin, crossline step a, inline step b), and  *)
(* a repeated (inline, crossline) pair is displaced by s per repetition,   *)
(* so that duplicates differ in their coordinates.                         *)
(***************************************************************************)
InlineVals == {100, 101}
XlineVals == {200, 201}
Keys == InlineVals \X XlineVals
SgsVals == {-2, 0, 2}

Layouts ==
    { [ox |-> 0, oy |-> 0, ax |-> 1000, ay |-> 0, bx |-> 0, by |-> 1000,
       sx |-> 40, sy |-> 30],
      [ox |-> 500, oy |-> 200, ax |-> 30, ay |-> 40, bx |-> -40, by |-> 30,
       sx |-> 7, sy |-> 0],
      [ox |-> 1000, oy |-> 1000, ax |-> -40, ay |-> 0, bx |-> 0, by |-> -1000,
       sx |-> 0, sy |-> 60] }

MkTraces(ks, lay) ==
    [i \in 1..Len(ks) |->
       LET il == ks[i][1] - 100
           xl == ks[i][2] - 200
           occ == Cardinality({j \in 1..(i - 1) : ks[j] = ks[i]})
       IN  [INLINE |-> ks[i][1],
            XLINE |-> ks[i][2],
            X_RAW |-> lay.ox + xl * lay.ax + il * lay.bx + occ * lay.sx,
            Y_RAW |-> lay.oy + xl * lay.ay + il * lay.by + occ * lay.sy]]

Files ==
    {MkTraces(ks, lay) : ks \in UNION {[1..n -> Keys] : n \in 0..MaxRows},
                         lay \in Layouts}

NoCall == <<>>
NoResponse == [route |-> "none", status |-> 0, body |-> <<>>]

\* A route's reply: the body, or the unhandled exception of an unreadable file.
Reply(route, readable, body) ==
    IF readable THEN [route |-> route, status |-> 200, body |-> body]
    ELSE [route |-> route, status |-> 500, body |-> <<"IndexError">>]

(***************************************************************************)
(* The service.  A request is served to its end before the next one is     *)
(* taken: resp holds the response between the handler's return and its     *)
(* delivery.                                                               *)
(***************************************************************************)
Init ==
    /\ traces \in Files
    /\ sgs71 \in SgsVals
    /\ resp = NoResponse
    /\ arg = NoCall
    /\ out = NoCall

\* GET /map-data
MapData ==
    /\ resp = NoResponse
    /\ resp' = Reply("map-data", Readable(traces),
                     IF Readable(traces) THEN read_all_segy_metadata(traces, sgs71)
                     ELSE <<>>)
    /\ UNCHANGED <<traces, sgs71, arg, out>>

\* GET /survey-boundary
SurveyBoundary ==
    /\ resp = NoResponse
    /\ IF Readable(traces)
       THEN LET v == OrientVector(traces, sgs71)
            IN  \E deg_1 \in Angle(v[1], v[2]) :
                   resp' = Reply("survey-boundary", TRUE,
                                 survey_boundary(traces, sgs71, deg_1))
       ELSE resp' = Reply("survey-boundary", FALSE, <<>>)
    /\ UNCHANGED <<traces, sgs71, arg, out>>

\* GET /grid-data-all
GridDataAll ==
    /\ resp = NoResponse
    /\ resp' = Reply("grid-data-all", Readable(traces),
                     IF Readable(traces) THEN grid_data_all(traces, sgs71)
                     ELSE <<>>)
    /\ UNCHANGED <<traces, sgs71, arg, out>>

\* GET /boundary-edge-lines
BoundaryEdgeLines ==
    /\ resp = NoResponse
    /\ resp' = Reply("boundary-edge-lines", Readable(traces),
                     IF Readable(traces) THEN boundary_edge_lines(traces, sgs71)
                     ELSE <<>>)
    /\ UNCHANGED <<traces, sgs71, arg, out>>

\* jsonify(...) is returned and sent; nothing of the request is retained.
Send ==
    /\ resp # NoResponse
    /\ resp' = NoResponse
    /\ UNCHANGED <<traces, sgs71, arg, out>>

Next == MapData \/ SurveyBoundary \/ GridDataAll \/ BoundaryEdgeLines \/ Send

Spec == Init /\ [][Next]_vars

(***************************************************************************)
(* apply_sgs_scaling on its own: any value (in halves), any factor.        *)
(***************************************************************************)
InitScale ==
    /\ traces = <<>>
    /\ sgs71 = 0
    /\ resp = NoResponse
    /\ arg \in {<<Rat(n, 2), RInt(f)>> : n \in (-2 * MaxRaw)..(2 * MaxRaw),
                                         f \in (-MaxFactor)..MaxFactor}
    /\ out = NoCall

Scale ==
    /\ out = NoCall
    /\ out' = <<apply_sgs_scaling(arg[1], arg[2])>>
    /\ UNCHANGED <<traces, sgs71, resp, arg>>

NextScale == Scale

SpecScale == InitScale /\ [][NextScale]_vars

(***************************************************************************)
(* The orientation normalisation on its own: any angle np.angle can        *)
(* return, -180 < deg_1 <= 180, in steps of 1/ThetaRes degree.             *)
(***************************************************************************)
InitOrient ==
    /\ traces = <<>>
    /\ sgs71 = 0
    /\ resp = NoResponse
    /\ arg \in {<<Rat(k, ThetaRes)>> : k \in (1 - 180 * ThetaRes)..(180 * ThetaRes)}
    /\ out = NoCall

Normalise ==
    /\ out = NoCall
    /\ out' = <<FinDeg(arg[1])>>
    /\ UNCHANGED <<traces, sgs71, resp, arg>>

NextOrient == Normalise

SpecOrient == InitOrient /\ [][NextOrient]_vars

(***************************************************************************)
(* Properties.                                                             *)
(***************************************************************************)
Served(route) == resp.route = route /\ resp.status = 200

\* val is raw scaled by the file's scaling word f, stated without the
\* model's arithmetic: identity for 0, val * |f| = raw below 0, raw * f above.
ScaledFrom(val, raw, f) ==
    /\ IsRat(val)
    /\ f = 0 => val = <<raw, 1>>
    /\ f < 0 => val[1] * (-f) = raw * val[2]
    /\ f > 0 => val = <<raw * f, 1>>

\* The (inline, crossline) pairs present in the source.
SourcePairs == {<<traces[i].INLINE, traces[i].XLINE>> : i \in DOMAIN traces}

\* C3: scale(raw, factor) is raw for factor 0, raw / |factor| for a negative
\* factor and raw * factor for a positive one, and always returns a number;
\* scale(10, -2) = 5, scale(10, 2) = 20, scale(10, 0) = 10.
C3_ScaleBranches ==
    out # NoCall =>
      LET v == arg[1]
          f == arg[2][1]
          r == out[1]
      IN  /\ IsRat(r)
          /\ f = 0 => r = v
          /\ f < 0 => r[1] * v[2] * (-f) = v[1] * r[2]
          /\ f > 0 => r[1] * v[2] = v[1] * f * r[2]
          /\ (v = <<10, 1>> /\ f = -2) => r = <<5, 1>>
          /\ (v = <<10, 1>> /\ f = 2) => r = <<20, 1>>
          /\ (v = <<10, 1>> /\ f = 0) => r = <<10, 1>>

C3_Witness == arg = <<(<<10, 1>>), (<<-2, 1>>)>> /\ out = <<(<<5, 1>>)>>

\* C7: for every angle in (-180, 180] the normalised orientation lies in
\* [0, 360].
C7_OrientationInRange ==
    out # NoCall => /\ RLeq(RInt(0), out[1])
                    /\ RLeq(out[1], RInt(360))

C7_Witness == arg = <<(<<180, 1>>)>> /\ out = <<(<<270, 1>>)>>

\* The scaled point of the corner with corner index i.
CornerPoint(i) ==
    LET cd == read_segy_metadata(traces, sgs71)
        r == CHOOSE r \in Range(cd) : r.corner_index = i
    IN  <<r.X, r.Y>>

\* C4: the boundary is the 5-point ring [P0, P3, P1, P2, P0] of the corners'
\* scaled points: corner order 0, 3, 1, 2, closed by its first point.
C4_BoundaryRing ==
    Served("survey-boundary") =>
      LET b == resp.body.boundary
      IN  /\ Len(b) = 5
          /\ b[1] = CornerPoint(0)
          /\ b[2] = CornerPoint(3)
          /\ b[3] = CornerPoint(1)
          /\ b[4] = CornerPoint(2)
          /\ b[5] = b[1]

C4_Witness ==
    /\ Served("survey-boundary")
    /\ Cardinality({CornerPoint(i) : i \in 0..3}) = 4
    /\ resp.body.boundary[2] = CornerPoint(3)

\* C6: an inline (crossline) grid line is returned for index v exactly when
\* at least 2 deduplicated rows carry v; every returned line has at least 2
\* points, and no line is returned twice.
C6_GridLinesNeedTwoRows ==
    Served("grid-data-all") =>
      LET ils == resp.body.inlines
          xls == resp.body.xlines
      IN  /\ {ils[n].inline : n \in DOMAIN ils}
                = {v \in InlineVals : Cardinality({p \in SourcePairs : p[1] = v}) >= 2}
          /\ {xls[n].xline : n \in DOMAIN xls}
                = {v \in XlineVals : Cardinality({p \in SourcePairs : p[2] = v}) >= 2}
          /\ \A n \in DOMAIN ils : Len(ils[n].points) >= 2
          /\ \A n \in DOMAIN xls : Len(xls[n].points) >= 2
          /\ \A n, m \in DOMAIN ils : ils[n].inline = ils[m].inline => n = m
          /\ \A n, m \in DOMAIN xls : xls[n].xline = xls[m].xline => n = m

C6_Witness ==
    /\ Served("grid-data-all")
    /\ \E v \in InlineVals : Cardinality({p \in SourcePairs : p[1] = v}) = 1
    /\ Len(resp.body.inlines) = 1
    /\ Len(resp.body.xlines) = 1

\* The trace a corner is read from: storage positions 0, N-1, N-C, C-1 of the
\* file, C its number of distinct crosslines.
CornerTracePos(i) ==
    LET N == Len(traces)
        C == Cardinality({traces[j].XLINE : j \in DOMAIN traces})
    IN  <<1, N, N - C + 1, C>>[i + 1]

\* The place of corner i in the boundary ring.
RingPos(i) == <<1, 3, 4, 2>>[i + 1]

Dedup == read_all_segy_metadata(traces, sgs71)
OpenBoundary == SubSeq(BoundaryPoints(read_segy_metadata(traces, sgs71)), 1, 4)
AssignedInline(il) == {e \in 0..3 : il \in Range(resp.body[e].inlines)}
AssignedXline(xl) == {e \in 0..3 : xl \in Range(resp.body[e].xlines)}
InlinePoints(il) == PointsOf(InlineRows(Dedup, il))
XlinePoints(xl) == PointsOf(XlineRows(Dedup, xl))

\* The survey is the square (0,0), (1000,0), (1000,1000), (0,1000).
SquareSurvey ==
    OpenBoundary = << <<(<<0, 1>>), (<<0, 1>>)>>, <<(<<1000, 1>>), (<<0, 1>>)>>,
                      <<(<<1000, 1>>), (<<1000, 1>>)>>, <<(<<0, 1>>), (<<1000, 1>>)>> >>

\* All points of pts lie on y = 0 with 0 <= x <= 1000.
OnTopSide(pts) ==
    \A k \in DOMAIN pts : /\ pts[k][2] = <<0, 1>>
                           /\ RLeq(<<0, 1>>, pts[k][1])
                           /\ RLeq(pts[k][1], <<1000, 1>>)

\* The file holds no (inline, crossline) pair twice.
NoDuplicates == Len(traces) = Cardinality(SourcePairs)

\* A survey none of the degenerate cases applies to: at least 4 rows, at
\* least 2 distinct crosslines, no pair twice.
RegularSurvey ==
    /\ NoDuplicates
    /\ Cardinality(SourcePairs) >= 4
    /\ Cardinality(Xlines(traces)) >= 2

C2_DegenerateIsGeometryError ==
    resp.route = "survey-boundary" =>
      LET degenerate ==
            \/ Len(traces) = 0
            \/ Cardinality(Xlines(traces)) <= 1
            \/ Cardinality(SourcePairs) < 4
            \/ CornerPoint(3) = CornerPoint(0)
      IN  degenerate => resp.status # 200

\* C8 as stated: corners 0, 1, 2, 3 are the rows at positions 0, N-1, N-C and
\* C-1 of the deduplicated table (N its rows, C its distinct crosslines), each
\* with that row's inline, crossline and scaled point, duplicates in the
\* source or not (read on files of at least 3 pairs and 2 crosslines).
C8_CornersOfDedupTable ==
    (/\ Served("survey-boundary")
     /\ Cardinality(SourcePairs) >= 3
     /\ Cardinality(Xlines(traces)) >= 2) =>
      LET N == Len(Dedup)
          C == Cardinality({Dedup[n].XLINE : n \in DOMAIN Dedup})
          pos == <<1, N, N - C + 1, C>>
      IN  \A i \in 0..3 :
             LET row == Dedup[pos[i + 1]]
             IN  /\ resp.body.boundary[RingPos(i)] = <<row.X, row.Y>>
                 /\ resp.body.iline_cood[RingPos(i)] = row.INLINE
                 /\ resp.body.xline_cood[RingPos(i)] = row.XLINE

\* C5 as stated: each (inline, crossline) pair of the source occurs once in
\* the map points, gives one point to its inline line and one to its
\* crossline line, and counts once in what is derived from the table: the
\* row count N that places corners 1 and 2, and the edge assignments.
C5_OnePerPair ==
    /\ Served("map-data") =>
         \A p \in SourcePairs :
            Cardinality({n \in DOMAIN resp.body :
                           <<resp.body[n].INLINE, resp.body[n].XLINE>> = p}) = 1
    /\ Served("grid-data-all") =>
         /\ \A n \in DOMAIN resp.body.inlines :
               Len(resp.body.inlines[n].points)
                 = Cardinality({p \in SourcePairs : p[1] = resp.body.inlines[n].inline})
         /\ \A n \in DOMAIN resp.body.xlines :
               Len(resp.body.xlines[n].points)
                 = Cardinality({p \in SourcePairs : p[2] = resp.body.xlines[n].xline})
    /\ (/\ Served("survey-boundary")
        /\ Cardinality(SourcePairs) >= 3
        /\ Cardinality(Xlines(traces)) >= 2) =>
         LET N == Cardinality(SourcePairs)
             C == Cardinality(Xlines(traces))
         IN  /\ resp.body.iline_cood[RingPos(1)] = Dedup[N].INLINE
             /\ resp.body.xline_cood[RingPos(1)] = Dedup[N].XLINE
             /\ resp.body.boundary[RingPos(1)] = <<Dedup[N].X, Dedup[N].Y>>
             /\ resp.body.iline_cood[RingPos(2)] = Dedup[N - C + 1].INLINE
             /\ resp.body.xline_cood[RingPos(2)] = Dedup[N - C + 1].XLINE
             /\ resp.body.boundary[RingPos(2)] = <<Dedup[N - C + 1].X, Dedup[N - C + 1].Y>>
    /\ Served("boundary-edge-lines") =>
         \A e \in 0..3 :
            /\ Len(resp.body[e].inlines) = Cardinality(Range(resp.body[e].inlines))
            /\ Len(resp.body[e].xlines) = Cardinality(Range(resp.body[e].xlines))

\* C10 as stated: every index assigned to an edge is the index of a grid line
\* of at least 2 points; an index held by a single deduplicated row is never
\* assigned (read on files of at least 3 pairs and 2 crosslines, none twice).
C10_OnlyGridLinesAssigned ==
    (/\ Served("boundary-edge-lines")
     /\ NoDuplicates
     /\ Cardinality(SourcePairs) >= 3
     /\ Cardinality(Xlines(traces)) >= 2) =>
      \A e \in 0..3 :
         /\ \A il \in Range(resp.body[e].inlines) :
               Cardinality({p \in SourcePairs : p[1] = il}) >= 2
         /\ \A xl \in Range(resp.body[e].xlines) :
               Cardinality({p \in SourcePairs : p[2] = xl}) >= 2

====
